---- MODULE Spec2Model ----
(***************************************************************************)
(* Model of the Simple MCP Server: the tool catalog (tools.py), the       *)
(* argument validator (tools.py), the five tool handlers (handlers.py)    *)
(* and the request handlers registered by SimpleMCPServer (server.py).    *)
(*                                                                         *)
(* Requests arrive one at a time from the transport (Receive), are        *)
(* processed whole by the registered handler (Handle...), and the         *)
(* response is taken by the transport (Deliver).  The helpers of tools.py *)
(* that the server itself never calls are exercised by a caller           *)
(* (CallGetToolByName, CallValidate, CallValidateRequiredParams, Return).  *)
(* ConcurrentSpec runs the requests as tasks of one event loop instead.   *)
(***************************************************************************)
EXTENDS Integers, Sequences, FiniteSets, TLC

(***************************************************************************)
(* Bounds of the model.                                                    *)
(***************************************************************************)
MaxRequests == 3
MaxTicks == 2
MaxNum == 10
TickSeconds == 45
MaxTasks == 3

(***************************************************************************)
(* Python values that a JSON argument can carry.  A value is a record      *)
(* [t, s, n]: t is the Python type, s the text of a str, n the number      *)
(* (an int, a bool as 0/1, or a float counted in halves).                  *)
(***************************************************************************)
VStr(s) == [t |-> "str", s |-> s, n |-> 0]
VInt(i) == [t |-> "int", s |-> "", n |-> i]
VFloat(h) == [t |-> "float", s |-> "", n |-> h]
VBool(b) == [t |-> "bool", s |-> "", n |-> IF b THEN 1 ELSE 0]
VNone == [t |-> "NoneType", s |-> "", n |-> 0]

\* the text of an int
IntStr(i) == ToString(i)

\* repr of a float given in halves: 5.0, 2.5, -0.5
FloatStr(h) ==
    LET a == IF h < 0 THEN -h ELSE h
        sign == IF h < 0 THEN "-" ELSE ""
    IN sign \o ToString(a \div 2) \o (IF a % 2 = 0 THEN ".0" ELSE ".5")

\* str(value), as an f-string renders it
PyStr(v) ==
    CASE v.t = "str" -> v.s
      [] v.t = "int" -> IntStr(v.n)
      [] v.t = "float" -> FloatStr(v.n)
      [] v.t = "bool" -> (IF v.n = 1 THEN "True" ELSE "False")
      [] OTHER -> "None"

\* truthiness of a value (if value:)
Truthy(v) ==
    CASE v.t = "str" -> v.s # ""
      [] v.t = "NoneType" -> FALSE
      [] OTHER -> v.n # 0

(***************************************************************************)
(* Outcome of a call: a returned text or a raised exception.               *)
(***************************************************************************)
Returns(text) == [raised |-> FALSE, exc |-> "", text |-> text]
Raises(exc, msg) == [raised |-> TRUE, exc |-> exc, text |-> msg]

\* arguments.get(key, default)
Get(arguments, key, default) ==
    IF key \in DOMAIN arguments THEN arguments[key] ELSE default

(***************************************************************************)
(* tools.py: the tool catalog.  A property of an input schema keeps its    *)
(* declared type and its default (VNone when the schema gives none).       *)
(***************************************************************************)
Prop(type, default) == [type |-> type, default |-> default]

Tool(name, description, properties, required) ==
    [name |-> name, description |-> description,
     inputSchema |-> [type |-> "object", properties |-> properties,
                      required |-> required]]

\* the results returned so far by get_all_tools, to whatever caller
VARIABLE listed

HelloWorldTool ==
    Tool("hello_world",
         "A simple greeting tool that returns a hello message",
         [k \in {"name"} |-> Prop("string", VStr("World"))],
         << >>)

EchoTool ==
    Tool("echo",
         "Echo back the input message with optional prefix",
         [k \in {"message", "prefix"} |->
             IF k = "message" THEN Prop("string", VNone)
             ELSE Prop("string", VStr("Echo: "))],
         << "message" >>)

GetTimeTool ==
    Tool("get_time",
         "Get current time in various formats",
         [k \in {"format", "timezone"} |->
             IF k = "format" THEN Prop("string", VStr("readable"))
             ELSE Prop("string", VStr("local"))],
         << >>)

\* slip: the catalog requires only a
MathAddTool_b_optional ==
    Tool("math_add",
         "Add two numbers together",
         [k \in {"a", "b"} |-> Prop("number", VNone)],
         << "a" >>)

MathAddTool ==
    Tool("math_add",
         "Add two numbers together",
         [k \in {"a", "b"} |-> Prop("number", VNone)],
         << "a", "b" >>)

DebugInfoTool ==
    Tool("debug_info",
         "Get debug information about the MCP server",
         [k \in {"include_tools", "include_stats"} |->
             Prop("boolean", VBool(TRUE))],
         << >>)

\* slip: every call after the first loses the last entry of the list
get_all_tools_shrinking ==
    IF listed = {}
    THEN << HelloWorldTool, EchoTool, GetTimeTool, MathAddTool, DebugInfoTool >>
    ELSE << HelloWorldTool, EchoTool, GetTimeTool, MathAddTool >>

\* slip: an entry copied from another keeps the name of its source
get_all_tools_copied_name ==
    << HelloWorldTool, EchoTool, GetTimeTool, MathAddTool,
       [DebugInfoTool EXCEPT !.name = "math_add"] >>

get_all_tools ==
    << HelloWorldTool, EchoTool, GetTimeTool, MathAddTool, DebugInfoTool >>

\* the value returned when a lookup raises instead of returning a tool
NoTool == Tool("", "", [k \in {} |-> Prop("", VNone)], << >>)

\* slip: a name that is not found yields the first tool instead of an error
get_tool_by_name_fallback(name) ==
    LET tools == get_all_tools
        hits == {i \in 1..Len(tools) : tools[i].name = name}
    IN [raised |-> FALSE, exc |-> "", text |-> "",
        tool |-> IF hits # {}
                 THEN tools[CHOOSE i \in hits : \A j \in hits : i <= j]
                 ELSE tools[1]]

get_tool_by_name(name) ==
    LET tools == get_all_tools
        hits == {i \in 1..Len(tools) : tools[i].name = name}
    IN IF hits # {}
       THEN [raised |-> FALSE, exc |-> "", text |-> "",
             tool |-> tools[CHOOSE i \in hits : \A j \in hits : i <= j]]
       ELSE [raised |-> TRUE, exc |-> "ValueError",
             text |-> "Tool '" \o name \o "' not found", tool |-> NoTool]

\* isinstance(value, str) / isinstance(value, (int, float)) / isinstance(value, bool)
IsInstanceStr(v) == v.t = "str"
IsInstanceNumber(v) == v.t \in {"int", "float", "bool"}
IsInstanceBool(v) == v.t = "bool"

\* slip: a field that the schema does not declare is rejected
FieldTypeOk_strict(properties, field, value) ==
    IF field \in DOMAIN properties
    THEN LET expected_type == properties[field].type
         IN CASE expected_type = "string" -> IsInstanceStr(value)
              [] expected_type = "number" -> IsInstanceNumber(value)
              [] expected_type = "boolean" -> IsInstanceBool(value)
              [] OTHER -> TRUE
    ELSE FALSE

\* the type check of one supplied field, tools.py lines 166-173
FieldTypeOk(properties, field, value) ==
    IF field \in DOMAIN properties
    THEN LET expected_type == properties[field].type
         IN CASE expected_type = "string" -> IsInstanceStr(value)
              [] expected_type = "number" -> IsInstanceNumber(value)
              [] expected_type = "boolean" -> IsInstanceBool(value)
              [] OTHER -> TRUE
    ELSE TRUE

\* slip: only the first required field is looked for
RequiredPresent_first_only(required_fields, arguments) ==
    Len(required_fields) = 0 \/ required_fields[1] \in DOMAIN arguments

\* the required-field check, tools.py lines 158-161
RequiredPresent(required_fields, arguments) ==
    \A i \in 1..Len(required_fields) : required_fields[i] \in DOMAIN arguments

\* the try block of validate_tool_arguments, tools.py lines 153-175: the
\* value it returns, or the exception that get_tool_by_name raised in it
ValidateTry(tool_name, arguments) ==
    LET found == get_tool_by_name(tool_name)
        schema == found.tool.inputSchema
    IN IF found.raised
       THEN [raised |-> TRUE, exc |-> found.exc, valid |-> FALSE]
       ELSE [raised |-> FALSE, exc |-> "",
             valid |->
                 /\ RequiredPresent(schema.required, arguments)
                 /\ \A field \in DOMAIN arguments :
                        FieldTypeOk(schema.properties, field, arguments[field])]

\* slip: the exception of the lookup is not caught
ValidateCall_uncaught(tool_name, arguments) == ValidateTry(tool_name, arguments)

\* a call of validate_tool_arguments: the try block and "except Exception:
\* return False", tools.py lines 177-178
ValidateCall(tool_name, arguments) ==
    LET body == ValidateTry(tool_name, arguments)
    IN IF body.raised /\ body.exc \in {"ValueError", "TypeError", "KeyError",
                                       "AttributeError", "Exception"}
       THEN [raised |-> FALSE, exc |-> "", valid |-> FALSE]
       ELSE body

\* the value that validate_tool_arguments returns
validate_tool_arguments(tool_name, arguments) ==
    ValidateCall(tool_name, arguments).valid

(***************************************************************************)
(* The clock.  A datetime is the number of seconds since 2025-01-01        *)
(* 00:00:00 local time, below one day, with no microseconds.               *)
(***************************************************************************)
Pad2(n) == IF n < 10 THEN "0" \o ToString(n) ELSE ToString(n)

\* the time of day HH:MM:SS of a datetime
Clock(dt) ==
    Pad2(dt \div 3600) \o ":" \o Pad2((dt % 3600) \div 60) \o ":" \o Pad2(dt % 60)

\* datetime.isoformat()
isoformat(dt) == "2025-01-01T" \o Clock(dt)

\* datetime.strftime("%Y-%m-%d %H:%M:%S")
strftime(dt) == "2025-01-01 " \o Clock(dt)

\* str(datetime.timestamp()): seconds since the epoch, a float
timestamp(dt) == ToString(1735689600 + dt) \o ".0"

(***************************************************************************)
(* float(value), handlers.py lines 125-126.  A str converts when it is the *)
(* text of an int or of a float within the range of the model.             *)
(***************************************************************************)
ParseFloat(s) ==
    LET hs == {h \in (-2 * MaxNum)..(2 * MaxNum) :
                  \/ s = FloatStr(h)
                  \/ h % 2 = 0 /\ s = IntStr(h \div 2)}
    IN IF hs = {} THEN [ok |-> FALSE, val |-> 0]
       ELSE [ok |-> TRUE, val |-> CHOOSE h \in hs : TRUE]

\* slip: a text that is not a number converts to 0.0
float_lenient(v) ==
    CASE v.t = "str" ->
            LET p == ParseFloat(v.s)
            IN [raised |-> FALSE, exc |-> "", text |-> "",
                val |-> IF p.ok THEN p.val ELSE 0]
      [] v.t = "int" -> [raised |-> FALSE, exc |-> "", text |-> "", val |-> 2 * v.n]
      [] v.t = "bool" -> [raised |-> FALSE, exc |-> "", text |-> "", val |-> 2 * v.n]
      [] v.t = "float" -> [raised |-> FALSE, exc |-> "", text |-> "", val |-> v.n]
      [] OTHER -> [raised |-> TRUE, exc |-> "TypeError",
                   text |-> "float() argument must be a string or a real number, not 'NoneType'",
                   val |-> 0]

float(v) ==
    CASE v.t = "str" ->
            LET p == ParseFloat(v.s)
            IN IF p.ok THEN [raised |-> FALSE, exc |-> "", text |-> "", val |-> p.val]
               ELSE [raised |-> TRUE, exc |-> "ValueError",
                     text |-> "could not convert string to float: '" \o v.s \o "'",
                     val |-> 0]
      [] v.t = "int" -> [raised |-> FALSE, exc |-> "", text |-> "", val |-> 2 * v.n]
      [] v.t = "bool" -> [raised |-> FALSE, exc |-> "", text |-> "", val |-> 2 * v.n]
      [] v.t = "float" -> [raised |-> FALSE, exc |-> "", text |-> "", val |-> v.n]
      [] OTHER -> [raised |-> TRUE, exc |-> "TypeError",
                   text |-> "float() argument must be a string or a real number, not 'NoneType'",
                   val |-> 0]

(***************************************************************************)
(* handlers.py: the five tool handlers.  now is the reading of the clock.  *)
(***************************************************************************)
\* slip: the name is read with arguments["name"], which fails when absent
handle_hello_world_subscript(arguments, now) ==
    IF "name" \notin DOMAIN arguments
    THEN Raises("KeyError", "'name'")
    ELSE Returns("Hello, " \o PyStr(arguments["name"]) \o "! [wave]"
                 \o "\n\nGenerated at: " \o isoformat(now))

handle_hello_world(arguments, now) ==
    LET name == Get(arguments, "name", VStr("World"))
        greeting == "Hello, " \o PyStr(name) \o "! [wave]"
        stamp == isoformat(now)
    IN Returns(greeting \o "\n\nGenerated at: " \o stamp)

\* slip: the presence test is a truth test, "if not arguments.get('message')"
handle_echo_truth_test(arguments) ==
    IF ~Truthy(Get(arguments, "message", VNone))
    THEN Raises("ValueError", "Missing required parameter: message")
    ELSE Returns(PyStr(Get(arguments, "prefix", VStr("Echo: ")))
                 \o PyStr(arguments["message"]))

handle_echo(arguments) ==
    IF "message" \notin DOMAIN arguments
    THEN Raises("ValueError", "Missing required parameter: message")
    ELSE LET message == arguments["message"]
             prefix == Get(arguments, "prefix", VStr("Echo: "))
         IN Returns(PyStr(prefix) \o PyStr(message))

\* slip: the format defaults to iso
handle_get_time_default_iso(arguments, now) ==
    LET time_format == Get(arguments, "format", VStr("iso"))
        timezone == Get(arguments, "timezone", VStr("local"))
        known == time_format \in {VStr("iso"), VStr("timestamp"), VStr("readable")}
        time_str == CASE time_format = VStr("iso") -> isoformat(now)
                      [] time_format = VStr("timestamp") -> timestamp(now)
                      [] OTHER -> strftime(now)
        response == "Current time: " \o time_str
    IN IF ~known
       THEN Raises("ValueError", "Unknown time format: " \o PyStr(time_format))
       ELSE IF timezone # VStr("local")
       THEN Returns(response \o " (requested timezone: " \o PyStr(timezone) \o ")")
       ELSE Returns(response)

\* slip: the suffix is appended whenever a timezone is supplied
handle_get_time_suffix_if_supplied(arguments, now) ==
    LET time_format == Get(arguments, "format", VStr("readable"))
        known == time_format \in {VStr("iso"), VStr("timestamp"), VStr("readable")}
        time_str == CASE time_format = VStr("iso") -> isoformat(now)
                      [] time_format = VStr("timestamp") -> timestamp(now)
                      [] OTHER -> strftime(now)
        response == "Current time: " \o time_str
    IN IF ~known
       THEN Raises("ValueError", "Unknown time format: " \o PyStr(time_format))
       ELSE IF "timezone" \in DOMAIN arguments
       THEN Returns(response \o " (requested timezone: "
                    \o PyStr(arguments["timezone"]) \o ")")
       ELSE Returns(response)

handle_get_time(arguments, now) ==
    LET time_format == Get(arguments, "format", VStr("readable"))
        timezone == Get(arguments, "timezone", VStr("local"))
        known == time_format \in {VStr("iso"), VStr("timestamp"), VStr("readable")}
        time_str == CASE time_format = VStr("iso") -> isoformat(now)
                      [] time_format = VStr("timestamp") -> timestamp(now)
                      [] OTHER -> strftime(now)
        response == "Current time: " \o time_str
    IN IF ~known
       THEN Raises("ValueError", "Unknown time format: " \o PyStr(time_format))
       ELSE IF timezone # VStr("local")
       THEN Returns(response \o " (requested timezone: " \o PyStr(timezone) \o ")")
       ELSE Returns(response)

\* slip: a text is not converted to a number
handle_math_add_numbers_only(arguments) ==
    IF "a" \notin DOMAIN arguments \/ "b" \notin DOMAIN arguments
    THEN Raises("ValueError", "Missing required parameters: a and b")
    ELSE LET a == float(arguments["a"])
             b == float(arguments["b"])
         IN IF a.raised \/ arguments["a"].t = "str"
            THEN Raises("ValueError", "Invalid number format: " \o a.text)
            ELSE IF b.raised \/ arguments["b"].t = "str"
            THEN Raises("ValueError", "Invalid number format: " \o b.text)
            ELSE Returns(FloatStr(a.val) \o " + " \o FloatStr(b.val)
                         \o " = " \o FloatStr(a.val + b.val))

handle_math_add(arguments) ==
    IF "a" \notin DOMAIN arguments \/ "b" \notin DOMAIN arguments
    THEN Raises("ValueError", "Missing required parameters: a and b")
    ELSE LET a == float(arguments["a"])
             b == float(arguments["b"])
         IN IF a.raised
            THEN Raises("ValueError", "Invalid number format: " \o a.text)
            ELSE IF b.raised
            THEN Raises("ValueError", "Invalid number format: " \o b.text)
            ELSE Returns(FloatStr(a.val) \o " + " \o FloatStr(b.val)
                         \o " = " \o FloatStr(a.val + b.val))

(***************************************************************************)
(* json.dumps(debug_info, indent=2), handlers.py line 186, for the shapes  *)
(* that handle_debug_info builds.                                          *)
(***************************************************************************)
Quote(s) == "\"" \o s \o "\""

\* the leading digits of the repr of the float num/den (num, den >= 0, den > 0)
DivStr(num, den) ==
    IF (2 * num) % den = 0 THEN FloatStr((2 * num) \div den)
    ELSE LET r == num % den
         IN ToString(num \div den) \o "."
            \o ToString(((r * 10) \div den) % 10)
            \o ToString(((r * 100) \div den) % 10)
            \o ToString(((r * 1000) \div den) % 10)
            \o ToString(((r * 10000) \div den) % 10)

RECURSIVE JoinLines(_)
JoinLines(items) ==
    IF Len(items) = 0 THEN ""
    ELSE IF Len(items) = 1 THEN items[1]
    ELSE items[1] \o ",\n" \o JoinLines(Tail(items))

\* a list of strings at the given indentation
JsonStrList(strs, pad) ==
    IF Len(strs) = 0 THEN "[]"
    ELSE "[\n" \o JoinLines([i \in 1..Len(strs) |-> pad \o "  " \o Quote(strs[i])])
         \o "\n" \o pad \o "]"

\* one entry of debug_info["tools"], handlers.py lines 169-173
JsonToolEntry(tool) ==
    "    {\n"
    \o "      \"name\": " \o Quote(tool.name) \o ",\n"
    \o "      \"description\": " \o Quote(tool.description) \o ",\n"
    \o "      \"required_params\": " \o JsonStrList(tool.inputSchema.required, "      ")
    \o "\n    }"

JsonTools(tools) ==
    IF Len(tools) = 0 THEN "[]"
    ELSE "[\n" \o JoinLines([i \in 1..Len(tools) |-> JsonToolEntry(tools[i])]) \o "\n  ]"

(***************************************************************************)
(* handle_debug_info(arguments, server): server is the record of the       *)
(* fields of SimpleMCPServer that the handler reads.                       *)
(***************************************************************************)
\* slip: the statistics count the catalog, not the list in the response
DebugTools_catalog(arguments) == get_all_tools

\* debug_info["tools"], or the empty sequence when the key is not set
DebugTools(arguments) ==
    IF Truthy(Get(arguments, "include_tools", VBool(TRUE)))
    THEN get_all_tools ELSE << >>

\* slip: the elapsed minutes are used without the floor of one minute
DivisorMinutes_no_floor(uptime_seconds) == [num |-> uptime_seconds, den |-> 60]

\* max(1, debug_info["uptime_seconds"] / 60), as the fraction num/den
DivisorMinutes(uptime_seconds) ==
    IF uptime_seconds <= 60 THEN [num |-> 1, den |-> 1]
    ELSE [num |-> uptime_seconds, den |-> 60]

\* server.request_count / max(1, debug_info["uptime_seconds"] / 60), as the
\* fraction num/den, or the ZeroDivisionError of a division by zero
AvgRequestsPerMinute(request_count, uptime_seconds) ==
    LET d == DivisorMinutes(uptime_seconds)
    IN IF d.num = 0
       THEN [raised |-> TRUE, num |-> 0, den |-> 1]
       ELSE [raised |-> FALSE, num |-> request_count * d.den, den |-> d.num]

handle_debug_info(arguments, server, now) ==
    LET include_tools == Get(arguments, "include_tools", VBool(TRUE))
        include_stats == Get(arguments, "include_stats", VBool(TRUE))
        uptime_seconds == now - server.start_time
        avg == AvgRequestsPerMinute(server.request_count, uptime_seconds)
        base == "  \"server_name\": " \o Quote(server.server_name) \o ",\n"
                \o "  \"start_time\": " \o Quote(isoformat(server.start_time)) \o ",\n"
                \o "  \"uptime_seconds\": " \o FloatStr(2 * uptime_seconds) \o ",\n"
                \o "  \"request_count\": " \o IntStr(server.request_count) \o ",\n"
                \o "  \"python_version\": " \o Quote("3.11.0") \o ",\n"
                \o "  \"timestamp\": " \o Quote(isoformat(now))
        tools == IF Truthy(include_tools)
                 THEN ",\n  \"tools\": " \o JsonTools(get_all_tools)
                 ELSE ""
        stats == IF Truthy(include_stats)
                 THEN ",\n  \"statistics\": {\n"
                      \o "    \"tools_available\": "
                      \o IntStr(Len(DebugTools(arguments))) \o ",\n"
                      \o "    \"avg_requests_per_minute\": "
                      \o DivStr(avg.num, avg.den)
                      \o "\n  }"
                 ELSE ""
    IN IF Truthy(include_stats) /\ avg.raised
       THEN Raises("ZeroDivisionError", "float division by zero")
       ELSE Returns("[mag] MCP Server Debug Information\n\n"
                    \o "{\n" \o base \o tools \o stats \o "\n}")

(***************************************************************************)
(* validate_required_params, handlers.py lines 205-213.  The result keeps  *)
(* the mapping as it is after the call.                                    *)
(***************************************************************************)
\* ', '.join(items)
RECURSIVE JoinComma(_)
JoinComma(items) ==
    IF Len(items) = 0 THEN ""
    ELSE IF Len(items) = 1 THEN items[1]
    ELSE items[1] \o ", " \o JoinComma(Tail(items))

\* [param for param in required if param not in arguments]
MissingParams(arguments, required) ==
    LET Absent(param) == param \notin DOMAIN arguments
    IN SelectSeq(required, Absent)

\* slip: only the first missing parameter is reported
validate_required_params_first_only(arguments, required) ==
    LET missing == MissingParams(arguments, required)
    IN IF missing # << >>
       THEN [raised |-> TRUE, exc |-> "ValueError",
             text |-> "Missing required parameters: " \o missing[1],
             arguments |-> arguments]
       ELSE [raised |-> FALSE, exc |-> "", text |-> "", arguments |-> arguments]

validate_required_params(arguments, required) ==
    LET missing == MissingParams(arguments, required)
    IN IF missing # << >>
       THEN [raised |-> TRUE, exc |-> "ValueError",
             text |-> "Missing required parameters: " \o JoinComma(missing),
             arguments |-> arguments]
       ELSE [raised |-> FALSE, exc |-> "", text |-> "", arguments |-> arguments]

(***************************************************************************)
(* server.py: the request handlers registered by SimpleMCPServer.  Each    *)
(* operator gives the request counter after the request and what the       *)
(* handler hands back to the MCP library: a return value or an exception.  *)
(***************************************************************************)
\* slip: the block carries a flag next to its type and text
TextContent_flagged(text) == [type |-> "text", text |-> text, isError |-> FALSE]

TextContent(text) == [type |-> "text", text |-> text]

\* slip: the increment is lost
NextRequestCount_lost(request_count) == request_count * 1

\* self.request_count += 1, the first statement of every request handler
NextRequestCount(request_count) == request_count + 1

\* slip: the handler catches TypeError only
CaughtByExceptException_narrow(exc) == exc \in {"TypeError"}

\* the exception classes that "except Exception" catches, server.py line 150
CaughtByExceptException(exc) ==
    exc \in {"ValueError", "TypeError", "KeyError", "OverflowError",
             "ZeroDivisionError", "Exception"}

\* slip: the last branch of the chain takes every other name
HandlerFor_catch_all(name) ==
    CASE name = "hello_world" -> "handle_hello_world"
      [] name = "echo" -> "handle_echo"
      [] name = "get_time" -> "handle_get_time"
      [] name = "math_add" -> "handle_math_add"
      [] OTHER -> "handle_debug_info"

\* slip: the chain has no branch for debug_info
HandlerFor_without_debug_info(name) ==
    CASE name = "hello_world" -> "handle_hello_world"
      [] name = "echo" -> "handle_echo"
      [] name = "get_time" -> "handle_get_time"
      [] name = "math_add" -> "handle_math_add"
      [] OTHER -> ""

\* the handler that the chain of comparisons selects, server.py lines 118-128
HandlerFor(name) ==
    CASE name = "hello_world" -> "handle_hello_world"
      [] name = "echo" -> "handle_echo"
      [] name = "get_time" -> "handle_get_time"
      [] name = "math_add" -> "handle_math_add"
      [] name = "debug_info" -> "handle_debug_info"
      [] OTHER -> ""

\* the call of the selected handler (await handle_...(arguments))
Invoke(handler, arguments, server, now) ==
    CASE handler = "handle_hello_world" -> handle_hello_world(arguments, now)
      [] handler = "handle_echo" -> handle_echo(arguments)
      [] handler = "handle_get_time" -> handle_get_time(arguments, now)
      [] handler = "handle_math_add" -> handle_math_add(arguments)
      [] OTHER -> handle_debug_info(arguments, server, now)

\* the routing by tool name, server.py lines 118-131
Route(name, arguments, server, now) ==
    LET handler == HandlerFor(name)
    IN IF handler # ""
       THEN [invoked |-> handler,
             outcome |-> Invoke(handler, arguments, server, now)]
       ELSE [invoked |-> "", outcome |-> Returns("Unknown tool: " \o name)]

\* slip: the wording of format_error_response is used
ErrorText_other_wording(name, msg) == "Error in " \o name \o ": " \o msg

\* the text of the error response, server.py lines 151 and 159
ErrorText(name, msg) == "Error executing tool " \o name \o ": " \o msg

\* slip: the request is counted after the tool handler has run
handle_call_tool_counted_late(name, arguments, server, now) ==
    LET count == NextRequestCount(server.request_count)
        routed == Route(name, arguments, server, now)
        out == routed.outcome
    IN IF ~out.raised
       THEN [request_count |-> count, invoked |-> routed.invoked,
             raised |-> FALSE, exc |-> "", error |-> "",
             content |-> << TextContent(out.text) >>]
       ELSE IF CaughtByExceptException(out.exc)
       THEN [request_count |-> count, invoked |-> routed.invoked,
             raised |-> FALSE, exc |-> "", error |-> "",
             content |-> << TextContent(ErrorText(name, out.text)) >>]
       ELSE [request_count |-> count, invoked |-> routed.invoked,
             raised |-> TRUE, exc |-> out.exc, error |-> out.text,
             content |-> << >>]

handle_call_tool(name, arguments, server, now) ==
    LET count == NextRequestCount(server.request_count)
        self == [server EXCEPT !.request_count = count]
        routed == Route(name, arguments, self, now)
        out == routed.outcome
    IN IF ~out.raised
       THEN [request_count |-> count, invoked |-> routed.invoked,
             raised |-> FALSE, exc |-> "", error |-> "",
             content |-> << TextContent(out.text) >>]
       ELSE IF CaughtByExceptException(out.exc)
       THEN [request_count |-> count, invoked |-> routed.invoked,
             raised |-> FALSE, exc |-> "", error |-> "",
             content |-> << TextContent(ErrorText(name, out.text)) >>]
       ELSE [request_count |-> count, invoked |-> routed.invoked,
             raised |-> TRUE, exc |-> out.exc, error |-> out.text,
             content |-> << >>]

\* slip: the request is counted on entry and again on return
handle_list_tools_counted_twice(server) ==
    [request_count |-> NextRequestCount(NextRequestCount(server.request_count)),
     raised |-> FALSE, exc |-> "", error |-> "", tools |-> get_all_tools]

handle_list_tools(server) ==
    [request_count |-> NextRequestCount(server.request_count),
     raised |-> FALSE, exc |-> "", error |-> "", tools |-> get_all_tools]

\* slip: the server advertises a prompt
handle_list_prompts_advertising(server) ==
    [request_count |-> NextRequestCount(server.request_count),
     raised |-> FALSE, exc |-> "", error |-> "", prompts |-> << "greeting" >>]

handle_list_prompts(server) ==
    [request_count |-> NextRequestCount(server.request_count),
     raised |-> FALSE, exc |-> "", error |-> "", prompts |-> << >>]

\* slip: the error is raised before the request is counted
handle_get_prompt_uncounted(name, arguments, server) ==
    [request_count |-> server.request_count,
     raised |-> TRUE, exc |-> "ValueError",
     error |-> "No prompt named " \o name]

handle_get_prompt(name, arguments, server) ==
    [request_count |-> NextRequestCount(server.request_count),
     raised |-> TRUE, exc |-> "ValueError",
     error |-> "No prompt named " \o name]

(***************************************************************************)
(* The inputs of the model: tool names and argument mappings.              *)
(***************************************************************************)
CatalogNames == {"hello_world", "echo", "get_time", "math_add", "debug_info"}
OtherNames == {"nonexistent_tool", "Echo", ""}
Names == CatalogNames \cup OtherNames

\* the values tried for each parameter: of the declared type and of others
ArgValues(key) ==
    CASE key = "name" -> {VStr("TestUser"), VInt(5), VNone}
      [] key = "message" -> {VStr("hi"), VInt(5), VBool(TRUE), VNone}
      [] key = "prefix" -> {VStr("X: "), VInt(5)}
      [] key = "format" ->
            {VStr("iso"), VStr("readable"), VStr("timestamp"), VStr("bogus"),
             VInt(5)}
      [] key = "timezone" -> {VStr("local"), VStr("UTC"), VInt(5)}
      [] key = "a" ->
            {VInt(5), VInt(10), VFloat(5), VStr("5"), VStr("x"), VBool(TRUE),
             VNone}
      [] key = "b" ->
            {VInt(5), VInt(10), VFloat(5), VStr("5"), VStr("3"), VStr("x"),
             VBool(TRUE), VNone}
      [] key \in {"include_tools", "include_stats"} ->
            {VBool(TRUE), VBool(FALSE), VStr(""), VInt(5)}
      [] OTHER -> {VStr("hi")}

AllKeys ==
    {"name", "message", "prefix", "format", "timezone", "a", "b",
     "include_tools", "include_stats", "extra"}

AllValues == UNION {ArgValues(k) : k \in AllKeys}

\* the parameters a tool declares, and one that no tool declares
KeysOf(name) ==
    (IF name \in CatalogNames
     THEN DOMAIN get_tool_by_name(name).tool.inputSchema.properties
     ELSE {"message"}) \cup {"extra"}

ArgMaps(name) ==
    UNION {{f \in [D -> AllValues] : \A k \in D : f[k] \in ArgValues(k)} :
           D \in SUBSET KeysOf(name)}

\* the lists of required names and the mappings tried on
\* validate_required_params
RequiredLists ==
    {<< >>, << "a" >>, << "a", "b" >>, << "b", "a" >>, << "message", "a" >>,
     << "a", "a" >>, << "b", "message", "a" >>}

ParamMaps ==
    UNION {[D -> {VInt(5), VNone}] : D \in SUBSET {"a", "b", "extra"}}

NoArgs == [k \in {} |-> VNone]

(***************************************************************************)
(* State.                                                                  *)
(***************************************************************************)
VARIABLES
    server_name,    \* SimpleMCPServer.server_name
    start_time,     \* SimpleMCPServer.start_time
    request_count,  \* SimpleMCPServer.request_count
    now,            \* the clock that datetime.now() reads
    request,        \* the request the transport has handed to the server
    response,       \* what the request handler handed back
    invoked,        \* the tool handler that the request handler called
    probe,          \* a call of a helper of tools.py and its result
    received,       \* the number of requests that reached a request handler
    task_op,        \* the kind of each concurrently processed request
    task_pc,        \* where each concurrently processed request stands
    task_loaded,    \* the counter value a request read for its increment
    task_seen,      \* the request number a request logged
    task_order,     \* the requests in the order they entered their handler
    running         \* the request that holds the event loop, 0 for none

tasks == << task_op, task_pc, task_loaded, task_seen, task_order, running >>

vars == << server_name, start_time, request_count, now, request, response,
           invoked, probe, received, listed, tasks >>

(***************************************************************************)
(* The requests in flight and the initial state.                            *)
(***************************************************************************)
\* the requests that the event loop processes as concurrent tasks
Tasks == 1 .. MaxTasks

NoRequest == [op |-> "none", name |-> "", arguments |-> NoArgs]
NoResponse ==
    [status |-> "none", exc |-> "", error |-> "", content |-> << >>,
     tools |-> << >>, prompts |-> << >>]
NoProbe ==
    [fn |-> "none", name |-> "", arguments |-> NoArgs, raised |-> FALSE,
     error |-> "", tool |-> NoTool, valid |-> FALSE, tools |-> << >>,
     required |-> << >>, after |-> NoArgs]

\* the fields of the server object, as a handler reads them
Server ==
    [server_name |-> server_name, start_time |-> start_time,
     request_count |-> request_count]

Idle == request = NoRequest /\ probe = NoProbe

\* SimpleMCPServer.__init__
Init ==
    /\ server_name = "simple-mcp-debug"
    /\ start_time = 30
    /\ request_count = 0
    /\ now = start_time
    /\ request = NoRequest
    /\ response = NoResponse
    /\ invoked = ""
    /\ probe = NoProbe
    /\ received = 0
    /\ listed = {}
    /\ task_op = [t \in Tasks |-> "none"]
    /\ task_pc = [t \in Tasks |-> "ready"]
    /\ task_loaded = [t \in Tasks |-> 0]
    /\ task_seen = [t \in Tasks |-> 0]
    /\ task_order = << >>
    /\ running = 0

\* time passes between requests
Tick ==
    /\ Idle
    /\ now - start_time < MaxTicks * TickSeconds
    /\ now' = now + TickSeconds
    /\ UNCHANGED << server_name, start_time, request_count, request, response,
                    invoked, probe, received, listed, tasks >>

\* the transport hands a request to the server
Receive(op, name, arguments) ==
    /\ Idle
    /\ received < MaxRequests
    /\ request' = [op |-> op, name |-> name, arguments |-> arguments]
    /\ UNCHANGED << server_name, start_time, request_count, now, response,
                    invoked, probe, received, listed, tasks >>

ReceiveListTools == Receive("list_tools", "", NoArgs)

ReceiveCallTool == \E name \in Names : \E arguments \in ArgMaps(name) :
    Receive("call_tool", name, arguments)

ReceiveListPrompts == Receive("list_prompts", "", NoArgs)

ReceiveGetPrompt == \E name \in {"greeting", ""} :
    \E arguments \in {NoArgs, [k \in {"extra"} |-> VStr("hi")]} :
        Receive("get_prompt", name, arguments)

Pending(op) == request.op = op /\ response = NoResponse

HandleListTools ==
    /\ Pending("list_tools")
    /\ LET r == handle_list_tools(Server)
       IN /\ request_count' = r.request_count
          /\ response' = [NoResponse EXCEPT !.status = "returned", !.tools = r.tools]
          /\ listed' = listed \cup {r.tools}
    /\ invoked' = ""
    /\ received' = received + 1
    /\ UNCHANGED << server_name, start_time, now, request, probe, tasks >>

\* slip: the request handler restarts the uptime clock of the server
HandleCallTool_restart ==
    /\ Pending("call_tool")
    /\ \E r \in {handle_call_tool(request.name, request.arguments, Server, now)} :
          /\ request_count' = r.request_count
          /\ invoked' = r.invoked
          /\ response' =
                IF r.raised
                THEN [NoResponse EXCEPT !.status = "raised", !.exc = r.exc,
                                        !.error = r.error]
                ELSE [NoResponse EXCEPT !.status = "returned",
                                        !.content = r.content]
          /\ listed' = IF r.invoked = "handle_debug_info"
                          /\ DebugTools(request.arguments) # << >>
                       THEN listed \cup {DebugTools(request.arguments)}
                       ELSE listed
    /\ received' = received + 1
    /\ start_time' = now
    /\ UNCHANGED << server_name, now, request, probe, tasks >>

HandleCallTool ==
    /\ Pending("call_tool")
    /\ \E r \in {handle_call_tool(request.name, request.arguments, Server, now)} :
          /\ request_count' = r.request_count
          /\ invoked' = r.invoked
          /\ response' =
                IF r.raised
                THEN [NoResponse EXCEPT !.status = "raised", !.exc = r.exc,
                                        !.error = r.error]
                ELSE [NoResponse EXCEPT !.status = "returned",
                                        !.content = r.content]
          /\ listed' = IF r.invoked = "handle_debug_info"
                          /\ DebugTools(request.arguments) # << >>
                       THEN listed \cup {DebugTools(request.arguments)}
                       ELSE listed
    /\ received' = received + 1
    /\ UNCHANGED << server_name, start_time, now, request, probe, tasks >>

HandleListPrompts ==
    /\ Pending("list_prompts")
    /\ LET r == handle_list_prompts(Server)
       IN /\ request_count' = r.request_count
          /\ response' = [NoResponse EXCEPT !.status = "returned",
                                            !.prompts = r.prompts]
    /\ invoked' = ""
    /\ received' = received + 1
    /\ UNCHANGED << server_name, start_time, now, request, probe, listed, tasks >>

HandleGetPrompt ==
    /\ Pending("get_prompt")
    /\ LET r == handle_get_prompt(request.name, request.arguments, Server)
       IN /\ request_count' = r.request_count
          /\ response' = [NoResponse EXCEPT !.status = "raised", !.exc = r.exc,
                                            !.error = r.error]
    /\ invoked' = ""
    /\ received' = received + 1
    /\ UNCHANGED << server_name, start_time, now, request, probe, listed, tasks >>

\* the transport takes the response
Deliver ==
    /\ request # NoRequest
    /\ response # NoResponse
    /\ request' = NoRequest
    /\ response' = NoResponse
    /\ invoked' = ""
    /\ UNCHANGED << server_name, start_time, request_count, now, probe,
                    received, listed, tasks >>

\* a caller of tools.py calls get_all_tools
CallGetAllTools ==
    /\ Idle
    /\ probe' = [NoProbe EXCEPT !.fn = "get_all_tools", !.tools = get_all_tools]
    /\ listed' = listed \cup {get_all_tools}
    /\ UNCHANGED << server_name, start_time, request_count, now, request,
                    response, invoked, received, tasks >>

\* a caller of tools.py calls get_tool_by_name
CallGetToolByName ==
    /\ Idle
    /\ \E name \in Names :
        LET r == get_tool_by_name(name)
        IN probe' = [NoProbe EXCEPT !.fn = "get_tool_by_name", !.name = name,
                                    !.raised = r.raised, !.error = r.text,
                                    !.tool = r.tool]
    /\ UNCHANGED << server_name, start_time, request_count, now, request,
                    response, invoked, received, listed, tasks >>

\* a caller of tools.py calls validate_tool_arguments
CallValidate ==
    /\ Idle
    /\ \E name \in Names : \E arguments \in ArgMaps(name) :
        \E r \in {ValidateCall(name, arguments)} :
            probe' = [NoProbe EXCEPT !.fn = "validate_tool_arguments",
                                     !.name = name, !.arguments = arguments,
                                     !.raised = r.raised, !.error = r.exc,
                                     !.valid = r.valid]
    /\ UNCHANGED << server_name, start_time, request_count, now, request,
                    response, invoked, received, listed, tasks >>

\* a caller of handlers.py calls validate_required_params
CallValidateRequiredParams ==
    /\ Idle
    /\ \E arguments \in ParamMaps : \E required \in RequiredLists :
        \E r \in {validate_required_params(arguments, required)} :
            probe' = [NoProbe EXCEPT !.fn = "validate_required_params",
                                     !.arguments = arguments,
                                     !.required = required,
                                     !.raised = r.raised, !.error = r.text,
                                     !.after = r.arguments]
    /\ UNCHANGED << server_name, start_time, request_count, now, request,
                    response, invoked, received, listed, tasks >>

\* the caller takes the result
Return ==
    /\ probe # NoProbe
    /\ probe' = NoProbe
    /\ UNCHANGED << server_name, start_time, request_count, now, request,
                    response, invoked, received, listed, tasks >>

Next ==
    \/ Tick
    \/ ReceiveListTools
    \/ ReceiveCallTool
    \/ ReceiveListPrompts
    \/ ReceiveGetPrompt
    \/ HandleListTools
    \/ HandleCallTool
    \/ HandleListPrompts
    \/ HandleGetPrompt
    \/ Deliver
    \/ CallGetAllTools
    \/ CallGetToolByName
    \/ CallValidate
    \/ CallValidateRequiredParams
    \/ Return

Spec == Init /\ [][Next]_vars

\* A request handler is a coroutine without suspension points: once the
\* request is handed over it runs to its end, and the transport then takes
\* the response.
LiveSpec ==
    /\ Spec
    /\ WF_vars(HandleListTools)
    /\ WF_vars(HandleCallTool)
    /\ WF_vars(HandleListPrompts)
    /\ WF_vars(HandleGetPrompt)
    /\ WF_vars(Deliver)

(***************************************************************************)
(* Concurrent processing.  The transport starts one task per request on    *)
(* one event loop; a task keeps the loop until it reaches an await, and    *)
(* the loop then resumes any task that is not finished.  The increment     *)
(* self.request_count += 1 is a load followed by a store.                  *)
(***************************************************************************)
Ops == {"list_tools", "call_tool", "list_prompts", "get_prompt"}

\* the positions of a request handler at which the event loop may switch
\* to another task
SuspensionPoints_inside_increment == {"await_handler", "loaded"}

SuspensionPoints == {"await_handler"}

\* the event loop runs the task that holds it, or resumes a suspended one
MayRun(t) == running = t \/ (running = 0 /\ task_pc[t] \in SuspensionPoints)

\* the event loop starts the task of a request: the handler is entered
Start(t, op) ==
    /\ running = 0
    /\ task_pc[t] = "ready"
    /\ task_op' = [task_op EXCEPT ![t] = op]
    /\ task_pc' = [task_pc EXCEPT ![t] = "entered"]
    /\ task_order' = Append(task_order, t)
    /\ running' = t
    /\ UNCHANGED << server_name, start_time, request_count, now, request,
                    response, invoked, probe, received, listed, task_loaded,
                    task_seen >>

\* self.request_count += 1, the load
LoadCount(t) ==
    /\ MayRun(t)
    /\ task_pc[t] = "entered"
    /\ task_loaded' = [task_loaded EXCEPT ![t] = request_count]
    /\ task_pc' = [task_pc EXCEPT ![t] = "loaded"]
    /\ running' = IF "loaded" \in SuspensionPoints THEN 0 ELSE t
    /\ UNCHANGED << server_name, start_time, request_count, now, request,
                    response, invoked, probe, received, listed, task_op,
                    task_seen, task_order >>

\* self.request_count += 1, the store
StoreCount(t) ==
    /\ MayRun(t)
    /\ task_pc[t] = "loaded"
    /\ request_count' = NextRequestCount(task_loaded[t])
    /\ task_pc' = [task_pc EXCEPT ![t] = "counted"]
    /\ running' = t
    /\ UNCHANGED << server_name, start_time, now, request, response, invoked,
                    probe, received, listed, task_op, task_loaded, task_seen,
                    task_order >>

\* the log line with the request number; a call_tool request then awaits
\* its tool handler, every other request returns
LogRequest(t) ==
    /\ MayRun(t)
    /\ task_pc[t] = "counted"
    /\ task_seen' = [task_seen EXCEPT ![t] = request_count]
    /\ \E pc \in {IF task_op[t] = "call_tool" THEN "await_handler"
                                               ELSE "done"} :
          /\ task_pc' = [task_pc EXCEPT ![t] = pc]
          /\ running' = IF pc \in SuspensionPoints \cup {"done"} THEN 0 ELSE t
    /\ UNCHANGED << server_name, start_time, request_count, now, request,
                    response, invoked, probe, received, listed, task_op,
                    task_loaded, task_order >>

\* the awaited tool handler runs and handle_call_tool returns
RunToolHandler(t) ==
    /\ MayRun(t)
    /\ task_pc[t] = "await_handler"
    /\ task_pc' = [task_pc EXCEPT ![t] = "done"]
    /\ running' = 0
    /\ UNCHANGED << server_name, start_time, request_count, now, request,
                    response, invoked, probe, received, listed, task_op,
                    task_loaded, task_seen, task_order >>

StartTask == \E t \in Tasks, op \in Ops : Start(t, op)
LoadCountStep == \E t \in Tasks : LoadCount(t)
StoreCountStep == \E t \in Tasks : StoreCount(t)
LogRequestStep == \E t \in Tasks : LogRequest(t)
RunToolHandlerStep == \E t \in Tasks : RunToolHandler(t)

ConcurrentNext ==
    \/ StartTask
    \/ LoadCountStep
    \/ StoreCountStep
    \/ LogRequestStep
    \/ RunToolHandlerStep

ConcurrentSpec == Init /\ [][ConcurrentNext]_vars

(***************************************************************************)
(* Properties.                                                             *)
(***************************************************************************)
\* a call_tool request that its request handler has finished with
CallToolDone == request.op = "call_tool" /\ response # NoResponse

\* what the tool handler called for the finished request did
OutcomeOfRequest == Invoke(invoked, request.arguments, Server, now)

\* the required parameters of each tool, as the catalog table states them
RequiredParams(name) ==
    CASE name = "echo" -> {"message"}
      [] name = "math_add" -> {"a", "b"}
      [] OTHER -> {}

\* C1: call_tool always hands back a response and never an exception,
\* whatever the tool name and the arguments, also when the tool handler
\* raised; a request that is waiting can always be processed.
C1_CallToolNeverRaises ==
    /\ Pending("call_tool") => ENABLED HandleCallTool
    /\ CallToolDone => response.status = "returned" /\ Len(response.content) > 0

C1_Witness ==
    /\ CallToolDone
    /\ invoked = "handle_math_add"
    /\ request.arguments = [k \in {"a", "b"} |-> IF k = "a" THEN VStr("x") ELSE VInt(5)]
    /\ OutcomeOfRequest.raised
    /\ response.status = "returned"

\* C2: a name outside the catalog reaches no tool handler and is answered
\* with the text "Unknown tool: {name}"; a tool handler runs only for a name
\* of the catalog.
C2_UnknownToolInvokesNoHandler ==
    CallToolDone =>
        /\ request.name \notin CatalogNames =>
              /\ invoked = ""
              /\ response.content =
                    << [type |-> "text", text |-> "Unknown tool: " \o request.name] >>
        /\ invoked # "" => request.name \in CatalogNames

C2_Witness ==
    /\ CallToolDone
    /\ request.name = "nonexistent_tool"
    /\ invoked = ""
    /\ response.content[1].text = "Unknown tool: nonexistent_tool"

\* C3: every call_tool request adds exactly 1 to the request counter,
\* whether the tool handler returns, raises, or the name is unknown.
C3_CallToolIncrementsByOne ==
    [][HandleCallTool => request_count' = request_count + 1]_vars

C3_Witness ==
    /\ CallToolDone
    /\ request.name \notin CatalogNames
    /\ request_count = 2

\* C4: the request counter starts at 0, never decreases, and equals the
\* number of requests of any kind that have reached a request handler.
C4_CounterCountsRequests ==
    /\ request_count = 0
    /\ [](request_count = received)
    /\ [][request_count' >= request_count]_vars

C4_Witness ==
    /\ request.op = "get_prompt"
    /\ response.status = "raised"
    /\ request_count = 3
    /\ received = 3

\* C5: every call_tool response is one block of type "text" with the fields
\* type and text only, and nothing else in the response tells an error from
\* a success.
C5_OneTextBlock ==
    CallToolDone =>
        /\ Len(response.content) = 1
        /\ DOMAIN response.content[1] = {"type", "text"}
        /\ response.content[1].type = "text"
        /\ response.exc = ""
        /\ response.error = ""

C5_Witness ==
    /\ CallToolDone
    /\ invoked = "handle_get_time"
    /\ OutcomeOfRequest.raised
    /\ Len(response.content) = 1

\* C6: when the tool handler raised with message M the response text is
\* "Error executing tool {name}: M"; when it returned text T the response
\* text is T.
C6_ResponseText ==
    (CallToolDone /\ invoked # "") =>
        /\ Len(response.content) > 0
        /\ response.content[1].text =
              IF OutcomeOfRequest.raised
              THEN "Error executing tool " \o request.name \o ": "
                   \o OutcomeOfRequest.text
              ELSE OutcomeOfRequest.text

C6_Witness ==
    /\ CallToolDone
    /\ invoked = "handle_echo"
    /\ response.content[1].text =
          "Error executing tool echo: Missing required parameter: message"

\* C7: get_tool_by_name returns, for a name of the catalog, a tool of that
\* name, and raises for any other name.
C7_GetToolByName ==
    probe.fn = "get_tool_by_name" =>
        IF probe.name \in CatalogNames
        THEN ~probe.raised /\ probe.tool.name = probe.name
        ELSE probe.raised

C7_Witness ==
    /\ probe.fn = "get_tool_by_name"
    /\ probe.name = "debug_info"
    /\ probe.tool.name = "debug_info"

\* C8: every result of get_all_tools, whatever happened in between, is the
\* same list of five tools in the same order, and the catalog is still that
\* list.
C8_CatalogStable ==
    /\ \A l \in listed :
          /\ [i \in 1..Len(l) |-> l[i].name] =
                << "hello_world", "echo", "get_time", "math_add", "debug_info" >>
          /\ l = get_all_tools
    /\ Cardinality(listed) <= 1
    /\ request.op = "list_tools" /\ response # NoResponse => response.tools \in listed
    /\ probe.fn = "get_all_tools" => probe.tools \in listed

C8_Witness ==
    /\ probe.fn = "get_all_tools"
    /\ probe.tools \in listed
    /\ request_count >= 2

\* C9: no two entries of the catalog have the same name.
C9_NamesDistinct ==
    \A l \in listed \cup {get_all_tools} :
        \A i, j \in 1..Len(l) : i # j => l[i].name # l[j].name

C9_Witness ==
    /\ request.op = "list_tools"
    /\ Len(response.tools) = 5
    /\ response.tools \in listed

\* C10: validate_tool_arguments returns false when a required parameter of
\* the tool is absent; echo with no arguments and math_add with a alone are
\* rejected, echo with message "hi" is accepted.
C10_RequiredAbsentRejected ==
    probe.fn = "validate_tool_arguments" =>
        /\ (RequiredParams(probe.name) \ DOMAIN probe.arguments) # {} => ~probe.valid
        /\ probe.name = "echo" /\ probe.arguments = NoArgs => ~probe.valid
        /\ probe.name = "echo" /\ probe.arguments = [k \in {"message"} |-> VStr("hi")]
              => probe.valid
        /\ probe.name = "math_add" /\ DOMAIN probe.arguments = {"a"} => ~probe.valid

C10_Witness ==
    /\ probe.fn = "validate_tool_arguments"
    /\ probe.name = "math_add"
    /\ probe.arguments = [k \in {"a"} |-> VInt(5)]
    /\ ~probe.valid

\* whether the text p occurs in the text s, and whether s begins with p
Contains(s, p) ==
    \E i \in 1..(Len(s) - Len(p) + 1) : SubSeq(s, i, i + Len(p) - 1) = p

StartsWith(s, p) == Len(s) >= Len(p) /\ SubSeq(s, 1, Len(p)) = p

\* the parameters each tool declares and their types, as the catalog table
\* states them
DeclaredType(name, field) ==
    CASE name = "hello_world" /\ field = "name" -> "string"
      [] name = "echo" /\ field \in {"message", "prefix"} -> "string"
      [] name = "get_time" /\ field \in {"format", "timezone"} -> "string"
      [] name = "math_add" /\ field \in {"a", "b"} -> "number"
      [] name = "debug_info" /\ field \in {"include_tools", "include_stats"} -> "boolean"
      [] OTHER -> "undeclared"

\* the primitive type of a value, with string, number and boolean distinct
RuntimeType(v) ==
    CASE v.t = "str" -> "string"
      [] v.t \in {"int", "float"} -> "number"
      [] v.t = "bool" -> "boolean"
      [] OTHER -> "null"

\* a validate_tool_arguments call on a tool of the catalog that has returned
Validated == probe.fn = "validate_tool_arguments" /\ probe.name \in CatalogNames

\* C11: validate_tool_arguments returns false whenever some supplied field
\* that the tool declares has a runtime type (string, number, boolean, all
\* distinct) other than the declared one.
C11_TypeMismatchRejected ==
    Validated =>
        ((\E field \in DOMAIN probe.arguments :
              /\ DeclaredType(probe.name, field) # "undeclared"
              /\ RuntimeType(probe.arguments[field]) # DeclaredType(probe.name, field))
         => ~probe.valid)

\* the arguments without the fields that the tool does not declare
DeclaredOnly(name, arguments) ==
    [k \in {f \in DOMAIN arguments : DeclaredType(name, f) # "undeclared"} |->
        arguments[k]]

\* C12: fields that the schema of the tool does not declare never change the
\* result of validate_tool_arguments: the result is the one for the same
\* arguments without those fields.
C12_UndeclaredFieldsIgnored ==
    probe.fn = "validate_tool_arguments" =>
        probe.valid =
            validate_tool_arguments(probe.name,
                                    DeclaredOnly(probe.name, probe.arguments))

C12_Witness ==
    /\ Validated
    /\ probe.name = "echo"
    /\ probe.arguments =
          [k \in {"message", "extra"} |-> IF k = "message" THEN VStr("hi") ELSE VStr("hi")]
    /\ probe.valid

\* a call_tool request that was routed to the given tool handler and answered
HandledBy(handler) == CallToolDone /\ invoked = handler

\* C13: hello_world succeeds for every argument mapping; its text contains
\* "Hello, {name}" for a supplied name and "Hello, World!" without one.
C13_HelloWorld ==
    HandledBy("handle_hello_world") =>
        /\ ~OutcomeOfRequest.raised
        /\ IF "name" \in DOMAIN request.arguments
           THEN Contains(OutcomeOfRequest.text,
                         "Hello, " \o PyStr(request.arguments["name"]))
           ELSE Contains(OutcomeOfRequest.text, "Hello, World!")
        /\ response.content[1].text = OutcomeOfRequest.text

C13_Witness ==
    /\ HandledBy("handle_hello_world")
    /\ request.arguments = [k \in {"name"} |-> VStr("TestUser")]
    /\ Contains(response.content[1].text, "Hello, TestUser")

\* C14: echo fails exactly when message is absent; otherwise its result is
\* the prefix, "Echo: " by default, followed by the message, and nothing
\* else: message "hi" with prefix "X: " gives "X: hi".
C14_Echo ==
    HandledBy("handle_echo") =>
        /\ OutcomeOfRequest.raised <=> "message" \notin DOMAIN request.arguments
        /\ ~OutcomeOfRequest.raised =>
              OutcomeOfRequest.text =
                  (IF "prefix" \in DOMAIN request.arguments
                   THEN PyStr(request.arguments["prefix"]) ELSE "Echo: ")
                  \o PyStr(request.arguments["message"])
        /\ request.arguments =
              [k \in {"message", "prefix"} |->
                  IF k = "message" THEN VStr("hi") ELSE VStr("X: ")]
              => response.content[1].text = "X: hi"

C14_Witness ==
    /\ HandledBy("handle_echo")
    /\ DOMAIN request.arguments = {"message", "prefix"}
    /\ request.arguments["message"] = VStr("hi")
    /\ request.arguments["prefix"] = VStr("X: ")
    /\ response.content[1].text = "X: hi"

\* the arguments with one field set, and without one field
WithField(arguments, key, value) ==
    [k \in DOMAIN arguments \cup {key} |-> IF k = key THEN value ELSE arguments[k]]

WithoutField(arguments, key) == [k \in DOMAIN arguments \ {key} |-> arguments[k]]

\* C15: get_time fails exactly when format is present and is not iso,
\* readable or timestamp; without format it does what format readable does;
\* every success begins with "Current time: "; through call_tool the format
\* "bogus" gives an error text and no time.
C15_GetTimeFormat ==
    HandledBy("handle_get_time") =>
        /\ OutcomeOfRequest.raised <=>
              /\ "format" \in DOMAIN request.arguments
              /\ request.arguments["format"] \notin
                    {VStr("iso"), VStr("readable"), VStr("timestamp")}
        /\ "format" \notin DOMAIN request.arguments =>
              OutcomeOfRequest =
                  handle_get_time(WithField(request.arguments, "format",
                                            VStr("readable")), now)
        /\ ~OutcomeOfRequest.raised =>
              StartsWith(OutcomeOfRequest.text, "Current time: ")
        /\ Get(request.arguments, "format", VNone) = VStr("bogus") =>
              /\ StartsWith(response.content[1].text, "Error executing tool get_time: ")
              /\ ~Contains(response.content[1].text, "Current time: ")

C15_Witness ==
    /\ HandledBy("handle_get_time")
    /\ request.arguments = [k \in {"format"} |-> VStr("bogus")]
    /\ response.content[1].text =
          "Error executing tool get_time: Unknown time format: bogus"

\* C16: the timezone argument does not change the time that is formatted:
\* the text is the text of the same call without timezone, followed by
\* " (requested timezone: {tz})" exactly when timezone is supplied and is
\* not "local".
C16_TimezoneOnlyEchoed ==
    (HandledBy("handle_get_time") /\ ~OutcomeOfRequest.raised) =>
        OutcomeOfRequest.text =
            handle_get_time(WithoutField(request.arguments, "timezone"), now).text
            \o (IF /\ "timezone" \in DOMAIN request.arguments
                   /\ request.arguments["timezone"] # VStr("local")
                THEN " (requested timezone: "
                     \o PyStr(request.arguments["timezone"]) \o ")"
                ELSE "")

C16_Witness ==
    /\ HandledBy("handle_get_time")
    /\ request.arguments =
          [k \in {"format", "timezone"} |->
              IF k = "format" THEN VStr("iso") ELSE VStr("UTC")]
    /\ StartsWith(response.content[1].text, "Current time: 2025-01-01T")
    /\ Contains(response.content[1].text, " (requested timezone: UTC)")

\* whether float() accepts a value: a number, or the text of one
Coercible(v) ==
    \/ v.t \in {"int", "float", "bool"}
    \/ v.t = "str" /\ v.s \in {"5", "3", "10", "2.5", "5.0"}

\* C17: math_add fails when a or b is missing or cannot be coerced to a
\* number and succeeds otherwise; through call_tool a = "x" with b = 5 gives
\* an error text and no sum.
C17_MathAddFailures ==
    HandledBy("handle_math_add") =>
        /\ OutcomeOfRequest.raised <=>
              \/ "a" \notin DOMAIN request.arguments
              \/ "b" \notin DOMAIN request.arguments
              \/ ~Coercible(request.arguments["a"])
              \/ ~Coercible(request.arguments["b"])
        /\ request.arguments =
              [k \in {"a", "b"} |-> IF k = "a" THEN VStr("x") ELSE VInt(5)]
              => /\ StartsWith(response.content[1].text,
                               "Error executing tool math_add: ")
                 /\ ~Contains(response.content[1].text, " = ")

C17_Witness ==
    /\ HandledBy("handle_math_add")
    /\ request.arguments =
          [k \in {"a", "b"} |-> IF k = "a" THEN VStr("x") ELSE VInt(5)]
    /\ response.content[1].text =
          "Error executing tool math_add: Invalid number format: could not convert string to float: 'x'"

\* C18: for integer a and b the text of math_add contains
\* "{a} + {b} = {a+b}" with the three numbers written as integers.
C18_MathAddIntegerText ==
    (/\ HandledBy("handle_math_add")
     /\ {"a", "b"} \subseteq DOMAIN request.arguments
     /\ request.arguments["a"].t = "int"
     /\ request.arguments["b"].t = "int")
    => Contains(OutcomeOfRequest.text,
                IntStr(request.arguments["a"].n) \o " + "
                \o IntStr(request.arguments["b"].n) \o " = "
                \o IntStr(request.arguments["a"].n + request.arguments["b"].n))

\* C19: debug_info never divides by zero: the average it reports is the
\* request count divided by the elapsed minutes, taken as at least 1, so it
\* is the request count for an uptime below one minute and the count
\* divided by the elapsed minutes for a longer one.
C19_AverageFloorOneMinute ==
    (/\ HandledBy("handle_debug_info")
     /\ Truthy(Get(request.arguments, "include_stats", VBool(TRUE))))
    => /\ ~OutcomeOfRequest.raised
       /\ Contains(response.content[1].text,
                   "\"avg_requests_per_minute\": "
                   \o (IF now - start_time < 60
                       THEN IntStr(request_count) \o ".0"
                       ELSE DivStr(request_count * 60, now - start_time))
                   \o "\n")

C19_Witness ==
    /\ HandledBy("handle_debug_info")
    /\ now = start_time
    /\ request_count = 2
    /\ Contains(response.content[1].text, "\"avg_requests_per_minute\": 2.0\n")

\* C20: every call_tool request ends with a response and the dispatcher
\* back in the idle state, and from the idle state before the request to the
\* idle state after it the request counter is the only server state that
\* has changed.
C20_BackToIdle ==
    /\ Pending("call_tool") ~> CallToolDone
    /\ CallToolDone ~> (request = NoRequest /\ response = NoResponse)
    /\ [][(request.op = "call_tool" \/ request'.op = "call_tool") =>
            /\ server_name' = server_name
            /\ start_time' = start_time
            /\ request_count' \in {request_count, request_count + 1}
            /\ (request_count' = request_count + 1) <=> HandleCallTool]_vars

C20_Witness ==
    /\ CallToolDone
    /\ invoked = "handle_debug_info"
    /\ request_count = 3
    /\ server_name = "simple-mcp-debug"
    /\ now > start_time

\* the concurrently processed requests that have returned
Completed == {t \in Tasks : task_pc[t] = "done"}

\* the concurrently processed requests that entered and have not returned
InFlight == {t \in Tasks : task_pc[t] \notin {"ready", "done"}}

\* C21: when requests are processed concurrently, interleaved at the awaits
\* of the handlers, no increment is lost: once N requests have completed and
\* none is in flight the counter is N, and the request numbers that
\* successive requests observe are strictly increasing.
C21_NoLostIncrement ==
    /\ InFlight = {} => request_count = Cardinality(Completed)
    /\ \A i, j \in 1 .. Len(task_order) :
          (/\ i < j
           /\ task_seen[task_order[i]] # 0
           /\ task_seen[task_order[j]] # 0)
          => task_seen[task_order[i]] < task_seen[task_order[j]]

\* two requests overlap: the later one has returned while the earlier one
\* is still suspended at its await, and it observed the next request number
C21_Witness ==
    \E i, j \in 1 .. Len(task_order) :
        /\ i < j
        /\ task_pc[task_order[i]] = "await_handler"
        /\ task_pc[task_order[j]] = "done"
        /\ task_seen[task_order[j]] = task_seen[task_order[i]] + 1
        /\ request_count = Cardinality(Completed \cup InFlight)

\* C22: list_prompts always returns an empty sequence and get_prompt always
\* fails with an error that names the requested prompt, whatever the name
\* and the arguments; both count the request.
C22_NoPrompts ==
    [][/\ (Pending("list_prompts") /\ response' # NoResponse) =>
            /\ response'.status = "returned"
            /\ response'.prompts = << >>
            /\ request_count' = request_count + 1
       /\ (Pending("get_prompt") /\ response' # NoResponse) =>
            /\ response'.status = "raised"
            /\ response'.error = "No prompt named " \o request.name
            /\ request_count' = request_count + 1]_vars

C22_Witness ==
    /\ request.op = "get_prompt"
    /\ request.name = "greeting"
    /\ request.arguments # NoArgs
    /\ response.status = "raised"
    /\ response.error = "No prompt named greeting"
    /\ request_count = 2

\* what validate_tool_arguments says about the arguments of the request
RequestValid == validate_tool_arguments(request.name, request.arguments)

\* C23: validation is advisory only.  get_time with a format text outside
\* iso, readable, timestamp (and no other ill-typed field) passes validation
\* and is rejected by the handler; math_add with a and b given as numeric
\* texts, and echo with a message that is not a string, fail validation and
\* are accepted by the handler.
C23_ValidationAdvisory ==
    /\ (/\ HandledBy("handle_get_time")
        /\ "format" \in DOMAIN request.arguments
        /\ request.arguments["format"] = VStr("bogus")
        /\ "timezone" \in DOMAIN request.arguments =>
              request.arguments["timezone"].t = "str")
       => RequestValid /\ OutcomeOfRequest.raised
    /\ (/\ HandledBy("handle_math_add")
        /\ {"a", "b"} \subseteq DOMAIN request.arguments
        /\ request.arguments["a"].t = "str" /\ Coercible(request.arguments["a"])
        /\ request.arguments["b"].t = "str" /\ Coercible(request.arguments["b"]))
       => ~RequestValid /\ ~OutcomeOfRequest.raised
    /\ (/\ HandledBy("handle_echo")
        /\ "message" \in DOMAIN request.arguments
        /\ request.arguments["message"].t # "str")
       => ~RequestValid /\ ~OutcomeOfRequest.raised

C23_Witness ==
    /\ HandledBy("handle_math_add")
    /\ request.arguments = [k \in {"a", "b"} |->
                               IF k = "a" THEN VStr("5") ELSE VStr("3")]
    /\ ~RequestValid
    /\ response.content[1].text = "5.0 + 3.0 = 8.0"

\* validate_tool_arguments rejects the arguments of the request at its
\* required-field check
RejectedForMissing ==
    ~RequiredPresent(get_tool_by_name(request.name).tool.inputSchema.required,
                     request.arguments)

\* the tool handler of the request raised a missing-parameter error
RaisedMissing ==
    /\ OutcomeOfRequest.raised
    /\ StartsWith(OutcomeOfRequest.text, "Missing required parameter")

\* C24: validator and handlers agree on the presence of required parameters:
\* echo and math_add raise a missing-parameter error exactly when
\* validate_tool_arguments rejects for an absent required field, and for
\* hello_world, get_time and debug_info neither ever rejects for a missing
\* field.
C24_RequiredAgreement ==
    /\ (HandledBy("handle_echo") \/ HandledBy("handle_math_add")) =>
          /\ RaisedMissing <=> RejectedForMissing
          /\ RejectedForMissing => ~RequestValid
    /\ (\/ HandledBy("handle_hello_world")
        \/ HandledBy("handle_get_time")
        \/ HandledBy("handle_debug_info")) =>
          ~RaisedMissing /\ ~RejectedForMissing

C24_Witness ==
    /\ HandledBy("handle_math_add")
    /\ DOMAIN request.arguments = {"a"}
    /\ RaisedMissing
    /\ RejectedForMissing

\* the names of the tools that get_all_tools returns
Advertised == {get_all_tools[i].name : i \in 1 .. Len(get_all_tools)}

\* C25: call_tool routes a name to a tool handler exactly when the name is
\* the name of a tool in the catalog: every tool that get_all_tools returns
\* is dispatchable and no other name reaches a handler.
C25_RoutedIsAdvertised ==
    /\ CallToolDone => (invoked # "" <=> request.name \in Advertised)
    /\ {name \in Names : HandlerFor(name) # ""} = Advertised

C25_Witness ==
    /\ CallToolDone
    /\ request.name = "debug_info"
    /\ request.name \in Advertised
    /\ invoked = "handle_debug_info"

\* C26: the counter is incremented before the tool handler runs, so the
\* request_count that a debug_info call reports counts that call: the k-th
\* request to the server, if it is debug_info, reports request_count = k.
C26_DebugInfoCountsItself ==
    HandledBy("handle_debug_info") =>
        Contains(response.content[1].text,
                 "\"request_count\": " \o IntStr(received) \o ",\n")

C26_Witness ==
    /\ HandledBy("handle_debug_info")
    /\ received = 2
    /\ Contains(response.content[1].text, "\"request_count\": 2,\n")

\* C27: no request changes server_name or start_time; the counter changes
\* only by the single increment of a request that is being processed, so no
\* tool handler changes it; and the argument mapping of a request is the
\* same after the handler as before.
C27_Frame ==
    [][/\ server_name' = server_name
       /\ start_time' = start_time
       /\ request_count' # request_count =>
             /\ request_count' = request_count + 1
             /\ request # NoRequest
             /\ response = NoResponse
             /\ response' # NoResponse
       /\ (request # NoRequest /\ request' # NoRequest) => request' = request]_vars

C27_Witness ==
    /\ HandledBy("handle_debug_info")
    /\ request.arguments # NoArgs
    /\ server_name = "simple-mcp-debug"
    /\ now > start_time
    /\ request_count = 3

\* the text that the finished debug_info request handed back
DebugText == response.content[1].text

\* C28: in debug_info the tool list is present exactly when include_tools is
\* true (by default it is) and the statistics block exactly when
\* include_stats is true (by default it is); tools_available is the catalog
\* size 5 when the tool list is included and 0 when include_tools is false,
\* although the catalog still holds five tools.
C28_DebugInfoBlocks ==
    HandledBy("handle_debug_info") =>
        LET include_tools ==
                Truthy(Get(request.arguments, "include_tools", VBool(TRUE)))
            include_stats ==
                Truthy(Get(request.arguments, "include_stats", VBool(TRUE)))
        IN /\ Contains(DebugText, "\"tools\": [") <=> include_tools
           /\ Contains(DebugText, "\"statistics\": {") <=> include_stats
           /\ Contains(DebugText, "\"tools_available\": ") <=> include_stats
           /\ (include_stats /\ include_tools) =>
                 Contains(DebugText, "\"tools_available\": 5,")
           /\ (include_stats /\ ~include_tools) =>
                 Contains(DebugText, "\"tools_available\": 0,")
           /\ Len(get_all_tools) = 5

C28_Witness ==
    /\ HandledBy("handle_debug_info")
    /\ request.arguments = [k \in {"include_tools"} |-> VBool(FALSE)]
    /\ Contains(DebugText, "\"tools_available\": 0,")
    /\ ~Contains(DebugText, "\"tools\": [")
    /\ Len(get_all_tools) = 5

\* C29: validate_tool_arguments never raises; for a tool name that is not in
\* the catalog it returns false, whatever the arguments.
C29_ValidateNeverRaises ==
    probe.fn = "validate_tool_arguments" =>
        /\ ~probe.raised
        /\ probe.name \notin Advertised => ~probe.valid

C29_Witness ==
    /\ probe.fn = "validate_tool_arguments"
    /\ probe.name = "nonexistent_tool"
    /\ probe.arguments # NoArgs
    /\ get_tool_by_name(probe.name).raised
    /\ ~probe.raised
    /\ ~probe.valid

\* the names of probe.required that probe.arguments lacks, in the order of
\* probe.required
ProbeMissing ==
    [i \in 1 .. Cardinality({j \in 1 .. Len(probe.required) :
                               probe.required[j] \notin DOMAIN probe.arguments}) |->
        probe.required[CHOOSE j \in 1 .. Len(probe.required) :
            /\ probe.required[j] \notin DOMAIN probe.arguments
            /\ Cardinality({k \in 1 .. j :
                   probe.required[k] \notin DOMAIN probe.arguments}) = i]]

\* C30: validate_required_params raises exactly when some name of required
\* is absent from arguments; the message then lists every missing name in
\* the order of required; the arguments are left as they were.
C30_ValidateRequiredParams ==
    probe.fn = "validate_required_params" =>
        /\ probe.raised <=>
              \E i \in 1 .. Len(probe.required) :
                  probe.required[i] \notin DOMAIN probe.arguments
        /\ probe.raised =>
              probe.error =
                  "Missing required parameters: " \o JoinComma(ProbeMissing)
        /\ probe.after = probe.arguments

C30_Witness ==
    /\ probe.fn = "validate_required_params"
    /\ probe.required = << "b", "message", "a" >>
    /\ DOMAIN probe.arguments = {"a", "extra"}
    /\ probe.raised
    /\ probe.error = "Missing required parameters: b, message"

====
